---- MODULE Spec2Model ----
(***************************************************************************)
(* Attendance matching of the student attendance tracker:                  *)
(*   src/src/app/api/attendance/route.ts  (POST /api/attendance)           *)
(*   src/src/app/api/students/route.ts    (POST /api/students)             *)
(*                                                                         *)
(* A JavaScript string is a sequence of one-character strings, so that     *)
(* normalisation and splitting are computed, not assumed.  A similarity    *)
(* score n/d is the record [num |-> n, den |-> d]; scores are compared by  *)
(* cross-multiplication, which agrees with the comparison of the IEEE      *)
(* quotients for the small lengths that occur.                             *)
(***************************************************************************)
EXTENDS Integers, Sequences, FiniteSets, TLC

VARIABLES
    roster,      \* table Student, in the order findMany lists it
    attendance,  \* table Attendance, in creation order
    pc,          \* per attendance request: the await the handler is suspended at
    ocrResult,   \* per attendance request: the parsed OCR payload
    student,     \* per attendance request: local `student`
    matchType,   \* per attendance request: local `matchType`
    response,    \* per attendance request: the response returned
    allStudents, \* per attendance request: local `allStudents`
    calls,       \* per attendance request: collaborator calls issued so far
    regStatus,   \* HTTP status of the latest POST /api/students
    name1,       \* calculateNameSimilarity under test: first argument
    name2,       \* calculateNameSimilarity under test: second argument
    simResult,   \* calculateNameSimilarity under test: value returned
    client,      \* the browser client: processImage and its fetchWithRetry
    camera       \* the browser client: camera frames and processFrame

vars == <<roster, attendance, pc, ocrResult, student, matchType, response,
          allStudents, calls, regStatus, name1, name2, simResult, client,
          camera>>

----------------------------------------------------------------------------
(* Bounds *)

MaxNameLen == 4     \* longest string given to calculateNameSimilarity on its own
MaxRoster == 2      \* most students registered

(* Thresholds of the handler *)
MinConfidence == 50
NameMatchConfidence == 75
ThresholdNum == 7
ThresholdDen == 10

----------------------------------------------------------------------------
(* Strings *)

Range(s) == {s[i] : i \in 1..Len(s)}

IsSpace(c) == c \in {" ", "\t"}

ToLowerChar(c) ==
    CASE c = "A" -> "a"
      [] c = "B" -> "b"
      [] c = "C" -> "c"
      [] OTHER -> c

ToLowerCase(s) == [i \in 1..Len(s) |-> ToLowerChar(s[i])]

\* s.replace(/\s+/g, ' '): every maximal run of whitespace becomes one space
RECURSIVE CollapseSpaces(_)
CollapseSpaces(s) ==
    IF s = <<>> THEN <<>>
    ELSE IF IsSpace(Head(s))
         THEN IF Len(s) > 1 /\ IsSpace(s[2])
              THEN CollapseSpaces(Tail(s))
              ELSE <<" ">> \o CollapseSpaces(Tail(s))
         ELSE <<Head(s)>> \o CollapseSpaces(Tail(s))

RECURSIVE TrimStart(_)
TrimStart(s) ==
    IF s # <<>> /\ IsSpace(Head(s)) THEN TrimStart(Tail(s)) ELSE s

RECURSIVE TrimEnd(_)
TrimEnd(s) ==
    IF s # <<>> /\ IsSpace(s[Len(s)])
    THEN TrimEnd(SubSeq(s, 1, Len(s) - 1))
    ELSE s

Trim(s) == TrimEnd(TrimStart(s))

normalizeVietnameseName(name) == Trim(CollapseSpaces(ToLowerCase(name)))

\* s.split(' '): the pieces between single spaces; "".split(' ') is [""]
RECURSIVE SplitFrom(_, _)
SplitFrom(s, cur) ==
    IF s = <<>> THEN <<cur>>
    ELSE IF Head(s) = " "
         THEN <<cur>> \o SplitFrom(Tail(s), <<>>)
         ELSE SplitFrom(Tail(s), Append(cur, Head(s)))

Split(s) == SplitFrom(s, <<>>)

----------------------------------------------------------------------------
(* Scores *)

Score(n, d) == [num |-> n, den |-> d]

ScoreGt(x, y) == x.num * y.den > y.num * x.den

ScoreEq(x, y) == x.num * y.den = y.num * x.den

ScoreGeThreshold(x) == x.num * ThresholdDen >= ThresholdNum * x.den

NoScore == [num |-> -1, den |-> 1]     \* nothing returned yet

----------------------------------------------------------------------------
(* calculateNameSimilarity *)

\* words compared position by position instead of by membership
calculateNameSimilarityPositional(n1, n2) ==
    LET words1 == Split(normalizeVietnameseName(n1))
        words2 == Split(normalizeVietnameseName(n2))
        same == {i \in 1..Len(words1) : i <= Len(words2) /\ words1[i] = words2[i]}
    IN  Score(Cardinality(same), Cardinality(Range(words1 \o words2)))

calculateNameSimilarity(n1, n2) ==
    LET norm1 == normalizeVietnameseName(n1)
        norm2 == normalizeVietnameseName(n2)
        words1 == Split(norm1)
        words2 == Split(norm2)
        intersection == SelectSeq(words1, LAMBDA x : x \in Range(words2))
        union == Range(words1 \o words2)
    IN  Score(Len(intersection), Cardinality(union))

----------------------------------------------------------------------------
(* Persistence collaborator *)

NoStudent == [id |-> 0, studentId |-> "", name |-> <<>>, class |-> ""]

findFirstUnfiltered(rows, sid) ==
    IF rows = <<>> THEN NoStudent ELSE Head(rows)

\* prisma.student.findFirst({where: {studentId}}): first row with that studentId
RECURSIVE findFirst(_, _)
findFirst(rows, sid) ==
    IF rows = <<>> THEN NoStudent
    ELSE IF Head(rows).studentId = sid THEN Head(rows)
         ELSE findFirst(Tail(rows), sid)

RECURSIVE ScanRosterNoThreshold(_, _, _, _)
ScanRosterNoThreshold(rows, studentName, bestMatch, bestSimilarity) ==
    IF rows = <<>> THEN bestMatch
    ELSE LET potentialStudent == Head(rows)
             similarity == calculateNameSimilarity(potentialStudent.name, studentName)
         IN  IF ScoreGt(similarity, bestSimilarity)
             THEN ScanRosterNoThreshold(Tail(rows), studentName, potentialStudent,
                                        similarity)
             ELSE ScanRosterNoThreshold(Tail(rows), studentName, bestMatch,
                                        bestSimilarity)

\* a later Student with an equal score replaces the earlier one
RECURSIVE ScanRosterLastWins(_, _, _, _)
ScanRosterLastWins(rows, studentName, bestMatch, bestSimilarity) ==
    IF rows = <<>> THEN bestMatch
    ELSE LET potentialStudent == Head(rows)
             similarity == calculateNameSimilarity(potentialStudent.name, studentName)
         IN  IF ~ScoreGt(bestSimilarity, similarity) /\ ScoreGeThreshold(similarity)
             THEN ScanRosterLastWins(Tail(rows), studentName, potentialStudent,
                                     similarity)
             ELSE ScanRosterLastWins(Tail(rows), studentName, bestMatch,
                                     bestSimilarity)

\* the for loop over allStudents, with its two locals
RECURSIVE ScanRoster(_, _, _, _)
ScanRoster(rows, studentName, bestMatch, bestSimilarity) ==
    IF rows = <<>> THEN bestMatch
    ELSE LET potentialStudent == Head(rows)
             similarity == calculateNameSimilarity(potentialStudent.name, studentName)
         IN  IF ScoreGt(similarity, bestSimilarity) /\ ScoreGeThreshold(similarity)
             THEN ScanRoster(Tail(rows), studentName, potentialStudent, similarity)
             ELSE ScanRoster(Tail(rows), studentName, bestMatch, bestSimilarity)

BestMatch(rows, studentName) == ScanRoster(rows, studentName, NoStudent, Score(0, 1))

----------------------------------------------------------------------------
(* Inputs *)

Reqs == {"r1"}      \* the attendance requests

\* "B \ta" normalises to "b a"
RegNames == { <<"a">>, <<"a", " ", "a", " ", "b">>, <<"B", " ", "\t", "a">> }

OcrNames == { <<>>, <<"a">>, <<"b", " ", "A">> }

RegIds == {"", "X", "Y", "Z"}

OcrIds == {"", "X", "Y"}

Confidences == {0, 49, 50, 74, 75, 100}

OcrResults ==
    [student_id : OcrIds, student_name : OcrNames, confidence : Confidences]

NoOcr == [student_id |-> "", student_name |-> <<>>, confidence |-> -1]

\* every complete body, and one body for each missing field
RegRequests ==
    [studentId : RegIds \ {""}, name : RegNames, class : {"C"}]
    \cup {[studentId |-> "", name |-> <<"a">>, class |-> "C"],
          [studentId |-> "X", name |-> <<>>, class |-> "C"],
          [studentId |-> "X", name |-> <<"a">>, class |-> ""]}

Alphabet == {"a", "B", " "}

RECURSIVE StringsUpTo(_)
StringsUpTo(n) ==
    IF n = 0 THEN {<<>>}
    ELSE LET shorter == StringsUpTo(n - 1)
         IN  shorter \cup {Append(s, c) : s \in shorter, c \in Alphabet}

NoCalls == [ocr |-> 0, findFirst |-> 0, findMany |-> 0, create |-> 0]

----------------------------------------------------------------------------
(* The browser client: fetchWithRetry *)

DefaultRetries == 3     \* fetchWithRetry(url, options, retries = 3)

NoError == [attempt |-> 0, kind |-> "", status |-> 0]

\* new Error('Failed after retries'), line 299
FailedAfterRetries == [attempt |-> 0, kind |-> "exhausted", status |-> 0]

NoResponse == [ok |-> FALSE, status |-> 0]

NoClientOcr == [student_id |-> "", confidence |-> -1]

IdleClient ==
    [pc |-> "idle", ocr |-> NoClientOcr, retries |-> 0, i |-> 0,
     attempts |-> 0, waits |-> <<>>, errors |-> <<>>,
     thrown |-> NoError, returned |-> NoResponse]

\* response.ok
IsOk(status) == status \in 200..299

\* the fetch of line 291 is issued for loop index i
FwrFetch(c, i) ==
    IF i < c.retries
    THEN [c EXCEPT !.pc = "fetching", !.i = i, !.attempts = @ + 1]
    ELSE [c EXCEPT !.pc = "thrown", !.i = i, !.thrown = FailedAfterRetries]

\* line 288: the call, entering the loop at i = 0
FwrStart(c, retries) == FwrFetch([c EXCEPT !.retries = retries], 0)

\* line 293: return response
FwrOk(c, status) ==
    [c EXCEPT !.pc = "returned", !.returned = [ok |-> TRUE, status |-> status]]

\* the delay is taken after the last attempt as well
FwrCatchAlwaysWaits(c, err) ==
    [c EXCEPT !.pc = "waiting",
              !.errors = Append(@, err),
              !.waits = Append(@, 1000 * (c.i + 1))]

\* lines 294-297: the catch block
FwrCatch(c, err) ==
    IF c.i = c.retries - 1
    THEN [c EXCEPT !.pc = "thrown", !.errors = Append(@, err), !.thrown = err]
    ELSE [c EXCEPT !.pc = "waiting",
                   !.errors = Append(@, err),
                   !.waits = Append(@, 1000 * (c.i + 1))]

\* line 292: throw new Error(`HTTP error! status: ...`)
HttpError(c, status) == [attempt |-> c.attempts, kind |-> "http", status |-> status]

\* fetch rejects
NetworkError(c) == [attempt |-> c.attempts, kind |-> "network", status |-> 0]

\* line 296 resolves: i++ and the loop test
FwrTimer(c) == FwrFetch(c, c.i + 1)

----------------------------------------------------------------------------
(* The browser client: camera frames and the debounced processFrame *)

\* State of the component after its first render: the camera is off
\* (line 277), auto detection is on (line 279), processingRef.current is
\* false (line 285), and the first processFrame has closed over
\* isAutoDetecting = true.  closures[g] is the isAutoDetecting the g-th
\* processFrame closed over; pending holds the processFrame instances whose
\* debounce timer is running; frames lists the invocations of the debounced
\* function, in the order they started.
IdleCamera ==
    [isCameraActive |-> FALSE, isAutoDetecting |-> TRUE,
     processingRef |-> FALSE, closures |-> <<TRUE>>, pending |-> {},
     frames |-> <<>>]

\* the processFrame of the latest render, the one the interval calls
Current(c) == Len(c.closures)

\* line 424: processFrame(imageSrc) (re)starts the debounce timer
Capture(c) == [c EXCEPT !.pending = @ \cup {Current(c)}]

\* setIsAutoDetecting, line 171: the render re-creates processFrame (useMemo,
\* lines 398, 414); the timer of the previous instance is not cancelled
SetAutoDetecting(c, b) ==
    [c EXCEPT !.isAutoDetecting = b, !.closures = Append(@, b)]

NewCall(c, g, at) ==
    [c EXCEPT !.pending = @ \ {g}, !.frames = Append(@, [gen |-> g, pc |-> at])]

\* a frame is admitted whatever processingRef holds
InvokeUnguarded(c, g) ==
    IF ~c.closures[g] THEN NewCall(c, g, "off")
    ELSE [NewCall(c, g, "blob") EXCEPT !.processingRef = TRUE]

\* lines 400-405: the timer of instance g fires and the function body runs up
\* to its first await
Invoke(c, g) ==
    IF ~c.closures[g] THEN NewCall(c, g, "off")
    ELSE IF c.processingRef THEN NewCall(c, g, "dropped")
    ELSE [NewCall(c, g, "blob") EXCEPT !.processingRef = TRUE]

\* lines 405-407: the blob is read and processImage(file) is called
EnterProcessImage(c, k) == [c EXCEPT !.frames[k].pc = "processImage"]

\* lines 408-412: catch (when thrown) and finally
Finally(c, k, how) ==
    [c EXCEPT !.frames[k].pc = how, !.processingRef = FALSE]

\* the invocations that are inside processImage
Inside(c) == {k \in DOMAIN c.frames : c.frames[k].pc = "processImage"}

\* the invocations between line 403 and the end of their finally block
Running(c) == {k \in DOMAIN c.frames : c.frames[k].pc \in {"blob", "processImage"}}

----------------------------------------------------------------------------
(* POST /api/attendance, one action per await *)

Respond(r, resp) ==
    /\ pc' = [pc EXCEPT ![r] = "done"]
    /\ response' = [response EXCEPT ![r] = resp]

\* line 60: ocrResult.confidence < 50
IsLowConfidenceScaled(res) == 2 * res.confidence < 1

IsLowConfidence(res) == res.confidence < MinConfidence

\* line 83, with `student` still null: ocrResult.student_name && confidence >= 75
NameMatchAllowedAnyConfidence(res) == res.student_name # <<>>

NameMatchAllowedWithoutId(res) ==
    /\ res.student_id = ""
    /\ res.student_name # <<>>
    /\ res.confidence >= NameMatchConfidence

NameMatchAllowed(res) ==
    res.student_name # <<>> /\ res.confidence >= NameMatchConfidence

\* lines 82-114 once `student` is still null after the identifier step
NameStepOrNotFound(r, res) ==
    IF NameMatchAllowed(res)
    THEN /\ pc' = [pc EXCEPT ![r] = "findMany"]
         /\ calls' = [calls EXCEPT ![r].findMany = @ + 1]
         /\ UNCHANGED response
    ELSE /\ Respond(r, "StudentNotFound")
         /\ UNCHANGED calls

\* lines 28-45: read the form, forward the file to the OCR service
Receive(r) ==
    /\ pc[r] = "idle"
    /\ \/ /\ Respond(r, "NoFile")
          /\ UNCHANGED calls
       \/ /\ pc' = [pc EXCEPT ![r] = "ocr"]
          /\ calls' = [calls EXCEPT ![r].ocr = @ + 1]
          /\ UNCHANGED response
    /\ UNCHANGED <<roster, attendance, ocrResult, student, matchType,
                   allStudents, regStatus, name1, name2, simResult,
                   client, camera>>

\* a non-2xx answer is retried once before the failure is returned
OcrFailRetried(r) ==
    /\ pc[r] = "ocr"
    /\ \/ /\ calls[r].ocr < 2
          /\ calls' = [calls EXCEPT ![r].ocr = @ + 1]
          /\ UNCHANGED <<pc, response>>
       \/ /\ Respond(r, "OCRServiceFailure")
          /\ UNCHANGED calls
    /\ UNCHANGED <<roster, attendance, ocrResult, student, matchType,
                   allStudents, regStatus, name1, name2, simResult,
                   client, camera>>

\* lines 42-54, 142-148: the OCR service is unreachable or answers non-2xx
OcrFail(r) ==
    /\ pc[r] = "ocr"
    /\ \/ Respond(r, "Failed")
       \/ Respond(r, "OCRServiceFailure")
    /\ UNCHANGED <<roster, attendance, ocrResult, student, matchType,
                   allStudents, calls, regStatus, name1, name2, simResult,
                   client, camera>>

\* lines 56-83: the OCR service answers; confidence gate; identifier step issued
OcrReturnFrom(r, results) ==
    /\ pc[r] = "ocr"
    /\ \E res \in results :
          /\ ocrResult' = [ocrResult EXCEPT ![r] = res]
          /\ IF IsLowConfidence(res)
             THEN /\ Respond(r, "LowConfidence")
                  /\ UNCHANGED calls
             ELSE IF res.student_id # ""
                  THEN /\ pc' = [pc EXCEPT ![r] = "findFirst"]
                       /\ calls' = [calls EXCEPT ![r].findFirst = @ + 1]
                       /\ UNCHANGED response
                  ELSE NameStepOrNotFound(r, res)
    /\ UNCHANGED <<roster, attendance, student, matchType, allStudents,
                   regStatus, name1, name2, simResult,
                   client, camera>>

OcrReturn(r) == OcrReturnFrom(r, OcrResults)

\* `if (student) matchType = 'ID_Match'` left out
FindFirstReturnUntagged(r) ==
    /\ pc[r] = "findFirst"
    /\ LET found == findFirst(roster, ocrResult[r].student_id)
       IN  /\ student' = [student EXCEPT ![r] = found]
           /\ IF found # NoStudent
              THEN /\ pc' = [pc EXCEPT ![r] = "create"]
                   /\ calls' = [calls EXCEPT ![r].create = @ + 1]
                   /\ UNCHANGED <<response, matchType>>
              ELSE /\ NameStepOrNotFound(r, ocrResult[r])
                   /\ UNCHANGED matchType
    /\ UNCHANGED <<roster, attendance, ocrResult, allStudents, regStatus,
                   name1, name2, simResult,
                   client, camera>>

\* lines 76-83: findFirst answers
FindFirstReturn(r) ==
    /\ pc[r] = "findFirst"
    /\ LET found == findFirst(roster, ocrResult[r].student_id)
       IN  /\ student' = [student EXCEPT ![r] = found]
           /\ IF found # NoStudent
              THEN /\ matchType' = [matchType EXCEPT ![r] = "ID_Match"]
                   /\ pc' = [pc EXCEPT ![r] = "create"]
                   /\ calls' = [calls EXCEPT ![r].create = @ + 1]
                   /\ UNCHANGED response
              ELSE /\ NameStepOrNotFound(r, ocrResult[r])
                   /\ UNCHANGED matchType
    /\ UNCHANGED <<roster, attendance, ocrResult, allStudents, regStatus,
                   name1, name2, simResult,
                   client, camera>>

\* lines 84-117: findMany answers; the roster is scanned
FindManyReturn(r) ==
    /\ pc[r] = "findMany"
    /\ LET bestMatch == BestMatch(roster, ocrResult[r].student_name)
       IN  /\ allStudents' = [allStudents EXCEPT ![r] = roster]
           /\ IF bestMatch # NoStudent
              THEN /\ student' = [student EXCEPT ![r] = bestMatch]
                   /\ matchType' = [matchType EXCEPT ![r] = "Name_Match"]
                   /\ pc' = [pc EXCEPT ![r] = "create"]
                   /\ calls' = [calls EXCEPT ![r].create = @ + 1]
                   /\ UNCHANGED response
              ELSE /\ Respond(r, "StudentNotFound")
                   /\ UNCHANGED <<student, matchType, calls>>
    /\ UNCHANGED <<roster, attendance, ocrResult, regStatus, name1, name2,
                   simResult,
                   client, camera>>

\* a Student already recorded is not recorded again
CreateReturnMerged(r) ==
    /\ pc[r] = "create"
    /\ IF \E i \in 1..Len(attendance) : attendance[i].studentId = student[r].id
       THEN UNCHANGED attendance
       ELSE attendance' = Append(attendance,
                                 [studentId |-> student[r].id,
                                  status |-> matchType[r]])
    /\ Respond(r, "Success")
    /\ UNCHANGED <<roster, ocrResult, student, matchType, allStudents, calls,
                   regStatus, name1, name2, simResult,
                   client, camera>>

\* lines 117-141: attendance.create answers
CreateReturn(r) ==
    /\ pc[r] = "create"
    /\ attendance' = Append(attendance,
                            [studentId |-> student[r].id, status |-> matchType[r]])
    /\ Respond(r, "Success")
    /\ UNCHANGED <<roster, ocrResult, student, matchType, allStudents, calls,
                   regStatus, name1, name2, simResult,
                   client, camera>>

\* attendance.create rejects after the row was written
PersistenceFailCommitted(r) ==
    /\ pc[r] \in {"findFirst", "findMany", "create"}
    /\ IF pc[r] = "create"
       THEN attendance' = Append(attendance,
                                 [studentId |-> student[r].id,
                                  status |-> matchType[r]])
       ELSE UNCHANGED attendance
    /\ Respond(r, "Failed")
    /\ UNCHANGED <<roster, ocrResult, student, matchType,
                   allStudents, calls, regStatus, name1, name2, simResult,
                   client, camera>>

\* lines 142-148: a persistence call rejects and the catch block answers
PersistenceFail(r) ==
    /\ pc[r] \in {"findFirst", "findMany", "create"}
    /\ Respond(r, "Failed")
    /\ UNCHANGED <<roster, attendance, ocrResult, student, matchType,
                   allStudents, calls, regStatus, name1, name2, simResult,
                   client, camera>>

----------------------------------------------------------------------------
(* POST /api/students *)

\* the unique index on Student.studentId is missing
RegisterOneUnchecked(json) ==
    /\ IF json.studentId = "" \/ json.name = <<>> \/ json.class = ""
       THEN /\ regStatus' = 400
            /\ UNCHANGED roster
       ELSE /\ Len(roster) < MaxRoster
            /\ regStatus' = 200
            /\ roster' = Append(roster,
                                [id |-> Len(roster) + 1,
                                 studentId |-> json.studentId,
                                 name |-> json.name,
                                 class |-> json.class])
    /\ UNCHANGED <<attendance, pc, ocrResult, student, matchType, response,
                   allStudents, calls, name1, name2, simResult,
                   client, camera>>

\* one registration with body json
RegisterOne(json) ==
    /\ IF json.studentId = "" \/ json.name = <<>> \/ json.class = ""
       THEN /\ regStatus' = 400
            /\ UNCHANGED roster
       ELSE IF \E i \in 1..Len(roster) : roster[i].studentId = json.studentId
            THEN /\ regStatus' = 409
                 /\ UNCHANGED roster
            ELSE /\ Len(roster) < MaxRoster
                 /\ regStatus' = 200
                 /\ roster' = Append(roster,
                                     [id |-> Len(roster) + 1,
                                      studentId |-> json.studentId,
                                      name |-> json.name,
                                      class |-> json.class])
    /\ UNCHANGED <<attendance, pc, ocrResult, student, matchType, response,
                   allStudents, calls, name1, name2, simResult,
                   client, camera>>

RegisterFrom(bodies) == \E json \in bodies : RegisterOne(json)

Register == RegisterFrom(RegRequests)

----------------------------------------------------------------------------
(* The attendance service *)

Init ==
    /\ roster = <<>>
    /\ attendance = <<>>
    /\ pc = [r \in Reqs |-> "idle"]
    /\ ocrResult = [r \in Reqs |-> NoOcr]
    /\ student = [r \in Reqs |-> NoStudent]
    /\ matchType = [r \in Reqs |-> ""]
    /\ response = [r \in Reqs |-> ""]
    /\ allStudents = [r \in Reqs |-> <<>>]
    /\ calls = [r \in Reqs |-> NoCalls]
    /\ regStatus = 0
    /\ name1 = <<>>
    /\ name2 = <<>>
    /\ simResult = NoScore
    /\ client = IdleClient
    /\ camera = IdleCamera

Next ==
    \/ Register
    \/ \E r \in Reqs : Receive(r)
    \/ \E r \in Reqs : OcrFail(r)
    \/ \E r \in Reqs : OcrReturn(r)
    \/ \E r \in Reqs : FindFirstReturn(r)
    \/ \E r \in Reqs : FindManyReturn(r)
    \/ \E r \in Reqs : CreateReturn(r)
    \/ \E r \in Reqs : PersistenceFail(r)

Spec == Init /\ [][Next]_vars

----------------------------------------------------------------------------
(* Two attendance requests side by side, with registrations *)

ConcReqs == {"r1", "r2"}

ConcRegRequests ==
    {[studentId |-> "X", name |-> <<"a">>, class |-> "C"],
     [studentId |-> "Y", name |-> <<"B", " ", "\t", "a">>, class |-> "C"]}

ConcOcrResults ==
    {[student_id |-> "X", student_name |-> <<>>, confidence |-> 50],
     [student_id |-> "", student_name |-> <<"a">>, confidence |-> 75],
     [student_id |-> "Y", student_name |-> <<"a">>, confidence |-> 75],
     [student_id |-> "", student_name |-> <<"a">>, confidence |-> 49]}

ConcInit ==
    /\ roster = <<>>
    /\ attendance = <<>>
    /\ pc = [r \in ConcReqs |-> "idle"]
    /\ ocrResult = [r \in ConcReqs |-> NoOcr]
    /\ student = [r \in ConcReqs |-> NoStudent]
    /\ matchType = [r \in ConcReqs |-> ""]
    /\ response = [r \in ConcReqs |-> ""]
    /\ allStudents = [r \in ConcReqs |-> <<>>]
    /\ calls = [r \in ConcReqs |-> NoCalls]
    /\ regStatus = 0
    /\ name1 = <<>>
    /\ name2 = <<>>
    /\ simResult = NoScore
    /\ client = IdleClient
    /\ camera = IdleCamera

ConcNext ==
    \/ RegisterFrom(ConcRegRequests)
    \/ \E r \in ConcReqs : Receive(r)
    \/ \E r \in ConcReqs : OcrFail(r)
    \/ \E r \in ConcReqs : OcrReturnFrom(r, ConcOcrResults)
    \/ \E r \in ConcReqs : FindFirstReturn(r)
    \/ \E r \in ConcReqs : FindManyReturn(r)
    \/ \E r \in ConcReqs : CreateReturn(r)
    \/ \E r \in ConcReqs : PersistenceFail(r)

ConcSpec == ConcInit /\ [][ConcNext]_vars

----------------------------------------------------------------------------
(* fetchWithRetry on its own *)

MaxRetries == 3     \* largest `retries` argument tried

Statuses == {200, 400, 404, 500}

FetchInit ==
    /\ roster = <<>>
    /\ attendance = <<>>
    /\ pc = [r \in Reqs |-> "idle"]
    /\ ocrResult = [r \in Reqs |-> NoOcr]
    /\ student = [r \in Reqs |-> NoStudent]
    /\ matchType = [r \in Reqs |-> ""]
    /\ response = [r \in Reqs |-> ""]
    /\ allStudents = [r \in Reqs |-> <<>>]
    /\ calls = [r \in Reqs |-> NoCalls]
    /\ regStatus = 0
    /\ name1 = <<>>
    /\ name2 = <<>>
    /\ simResult = NoScore
    /\ client = IdleClient
    /\ camera = IdleCamera

serverVars ==
    <<roster, attendance, pc, ocrResult, student, matchType, response,
      allStudents, calls, regStatus, name1, name2, simResult,
      camera>>

\* line 288: fetchWithRetry is called
FetchCall ==
    /\ client.pc = "idle"
    /\ \E retries \in 0..MaxRetries : client' = FwrStart(client, retries)
    /\ UNCHANGED serverVars

\* lines 291-293: the fetch resolves with a response
FetchResolves ==
    /\ client.pc = "fetching"
    /\ \E status \in Statuses :
          client' = IF IsOk(status) THEN FwrOk(client, status)
                    ELSE FwrCatch(client, HttpError(client, status))
    /\ UNCHANGED serverVars

\* lines 291, 294: the fetch rejects
FetchRejects ==
    /\ client.pc = "fetching"
    /\ client' = FwrCatch(client, NetworkError(client))
    /\ UNCHANGED serverVars

\* line 296: the delay is over
TimerFires ==
    /\ client.pc = "waiting"
    /\ client' = FwrTimer(client)
    /\ UNCHANGED serverVars

FetchNext == FetchCall \/ FetchResolves \/ FetchRejects \/ TimerFires

\* every fetch settles and every timer fires
FetchSpec == FetchInit /\ [][FetchNext]_vars /\ WF_vars(FetchNext)

----------------------------------------------------------------------------
(* processImage: the client's own OCR call, then /api/attendance with retry *)

\* the attendance request of each fetch attempt
ClientReqs == 1..DefaultRetries

ClientOcrResults == [student_id : {"", "X"}, confidence : {0, 49, 50, 100}]

\* what the OCR service may answer to the server for the image
ServerOcrResults ==
    {[student_id |-> "X", student_name |-> <<>>, confidence |-> 50],
     [student_id |-> "", student_name |-> <<"a">>, confidence |-> 75],
     [student_id |-> "", student_name |-> <<>>, confidence |-> 50],
     [student_id |-> "X", student_name |-> <<>>, confidence |-> 49]}

ClientInit ==
    /\ roster = <<[id |-> 1, studentId |-> "X", name |-> <<"a">>, class |-> "C"]>>
    /\ attendance = <<>>
    /\ pc = [r \in ClientReqs |-> "unsent"]
    /\ ocrResult = [r \in ClientReqs |-> NoOcr]
    /\ student = [r \in ClientReqs |-> NoStudent]
    /\ matchType = [r \in ClientReqs |-> ""]
    /\ response = [r \in ClientReqs |-> ""]
    /\ allStudents = [r \in ClientReqs |-> <<>>]
    /\ calls = [r \in ClientReqs |-> NoCalls]
    /\ regStatus = 0
    /\ name1 = <<>>
    /\ name2 = <<>>
    /\ simResult = NoScore
    /\ client = IdleClient
    /\ camera = IdleCamera

\* the status of each response of POST /api/attendance
StatusOf(resp) ==
    CASE resp = "Success" -> 200
      [] resp = "NoFile" -> 400
      [] resp = "LowConfidence" -> 400
      [] resp = "StudentNotFound" -> 404
      [] OTHER -> 500

\* the request of the attempt now being fetched reaches the server
Send(c) ==
    IF c.pc = "fetching"
    THEN pc' = [pc EXCEPT ![c.i + 1] = "idle"]
    ELSE UNCHANGED pc

clientFrame ==
    <<roster, attendance, ocrResult, student, matchType, response,
      allStudents, calls, regStatus, name1, name2, simResult,
      camera>>

\* lines 318-327: processImage is called and posts the image to the OCR service
ProcessImage ==
    /\ client.pc = "idle"
    /\ client' = [client EXCEPT !.pc = "ocr"]
    /\ UNCHANGED <<pc, clientFrame>>

\* lines 329-341, 391-394: the OCR call fails and the catch block reports it
ClientOcrFails ==
    /\ client.pc = "ocr"
    /\ client' = [client EXCEPT !.pc = "failed"]
    /\ UNCHANGED <<pc, clientFrame>>

\* the attendance request is sent on confidence alone
ShouldSubmitAnyId(res) == res.confidence >= MinConfidence

\* line 370: ocrResult.student_id && ocrResult.confidence >= 50
ShouldSubmit(res) == res.student_id # "" /\ res.confidence >= MinConfidence

\* lines 335-375: the OCR result arrives; the attendance request is sent or not
ClientOcrReturns ==
    /\ client.pc = "ocr"
    /\ \E res \in ClientOcrResults :
          LET c == [client EXCEPT !.ocr = res]
          IN  IF ShouldSubmit(res)
              THEN /\ client' = FwrStart(c, DefaultRetries)
                   /\ Send(client')
              ELSE /\ client' = [c EXCEPT !.pc = "done"]
                   /\ UNCHANGED pc
    /\ UNCHANGED clientFrame

\* lines 291-293: the server's response to the attempt arrives
AttemptResponds ==
    /\ client.pc = "fetching"
    /\ pc[client.i + 1] = "done"
    /\ LET status == StatusOf(response[client.i + 1])
       IN  client' = IF IsOk(status) THEN FwrOk(client, status)
                     ELSE FwrCatch(client, HttpError(client, status))
    /\ UNCHANGED <<pc, clientFrame>>

\* lines 291, 294: the fetch rejects, whatever the server did with the request
AttemptRejects ==
    /\ client.pc = "fetching"
    /\ client' = FwrCatch(client, NetworkError(client))
    /\ UNCHANGED <<pc, clientFrame>>

\* line 296, then line 291 again: the delay is over and the next attempt is sent
RetryTimer ==
    /\ client.pc = "waiting"
    /\ client' = FwrTimer(client)
    /\ Send(client')
    /\ UNCHANGED clientFrame

ClientNext ==
    \/ ProcessImage
    \/ ClientOcrFails
    \/ ClientOcrReturns
    \/ AttemptResponds
    \/ AttemptRejects
    \/ RetryTimer
    \/ \E r \in ClientReqs : Receive(r)
    \/ \E r \in ClientReqs : OcrFail(r)
    \/ \E r \in ClientReqs : OcrReturnFrom(r, ServerOcrResults)
    \/ \E r \in ClientReqs : FindFirstReturn(r)
    \/ \E r \in ClientReqs : FindManyReturn(r)
    \/ \E r \in ClientReqs : CreateReturn(r)
    \/ \E r \in ClientReqs : PersistenceFail(r)

ClientSpec == ClientInit /\ [][ClientNext]_vars

----------------------------------------------------------------------------
(* Camera frames: the interval, the debounce timers and processFrame *)

MaxFrames == 3       \* most invocations of the debounced function
MaxRenders == 3     \* most processFrame instances created

FrameInit ==
    /\ roster = <<>>
    /\ attendance = <<>>
    /\ pc = [r \in Reqs |-> "idle"]
    /\ ocrResult = [r \in Reqs |-> NoOcr]
    /\ student = [r \in Reqs |-> NoStudent]
    /\ matchType = [r \in Reqs |-> ""]
    /\ response = [r \in Reqs |-> ""]
    /\ allStudents = [r \in Reqs |-> <<>>]
    /\ calls = [r \in Reqs |-> NoCalls]
    /\ regStatus = 0
    /\ name1 = <<>>
    /\ name2 = <<>>
    /\ simResult = NoScore
    /\ client = IdleClient
    /\ camera = IdleCamera

cameraFrame ==
    <<roster, attendance, pc, ocrResult, student, matchType, response,
      allStudents, calls, regStatus, name1, name2, simResult, client>>

\* line 148: the camera button; the effect of lines 418-429 starts or clears
\* the interval
ToggleCamera ==
    /\ camera' = [camera EXCEPT !.isCameraActive = ~@]
    /\ UNCHANGED cameraFrame

\* line 171: the auto detection button
ToggleAutoDetecting ==
    /\ Len(camera.closures) < MaxRenders
    /\ camera' = SetAutoDetecting(camera, ~camera.isAutoDetecting)
    /\ UNCHANGED cameraFrame

\* lines 421-426: the interval fires and the screenshot is not null
IntervalFires ==
    /\ camera.isCameraActive
    /\ Len(camera.frames) + Cardinality(camera.pending \cup {Current(camera)})
          <= MaxFrames
    /\ camera' = Capture(camera)
    /\ UNCHANGED cameraFrame

\* the debounce delay of 200 ms of an instance is over
DebounceFires ==
    /\ \E g \in camera.pending : camera' = Invoke(camera, g)
    /\ UNCHANGED cameraFrame

\* line 405: fetch(imageSrc).then(r => r.blob()) resolves
BlobResolves ==
    /\ \E k \in DOMAIN camera.frames :
          /\ camera.frames[k].pc = "blob"
          /\ camera' = EnterProcessImage(camera, k)
    /\ UNCHANGED cameraFrame

\* lines 405, 408-412: reading the image rejects
BlobRejects ==
    /\ \E k \in DOMAIN camera.frames :
          /\ camera.frames[k].pc = "blob"
          /\ camera' = Finally(camera, k, "caught")
    /\ UNCHANGED cameraFrame

\* lines 407, 410-412: processImage resolves, having recorded the attendance
\* or having reported the error in its own catch block (lines 391-394)
ProcessImageReturns ==
    /\ \E k \in DOMAIN camera.frames :
          /\ camera.frames[k].pc = "processImage"
          /\ \E how \in {"processed", "failed"} :
                camera' = Finally(camera, k, how)
    /\ UNCHANGED cameraFrame

\* every promise an invocation awaits settles
FrameSettles == BlobResolves \/ BlobRejects \/ ProcessImageReturns

FrameNext ==
    \/ ToggleCamera
    \/ ToggleAutoDetecting
    \/ IntervalFires
    \/ DebounceFires
    \/ BlobResolves
    \/ BlobRejects
    \/ ProcessImageReturns

FrameSpec == FrameInit /\ [][FrameNext]_vars /\ WF_vars(FrameSettles)

----------------------------------------------------------------------------
(* calculateNameSimilarity on its own *)

SimInit ==
    /\ roster = <<>>
    /\ attendance = <<>>
    /\ pc = [r \in Reqs |-> "idle"]
    /\ ocrResult = [r \in Reqs |-> NoOcr]
    /\ student = [r \in Reqs |-> NoStudent]
    /\ matchType = [r \in Reqs |-> ""]
    /\ response = [r \in Reqs |-> ""]
    /\ allStudents = [r \in Reqs |-> <<>>]
    /\ calls = [r \in Reqs |-> NoCalls]
    /\ regStatus = 0
    /\ name1 \in StringsUpTo(MaxNameLen)
    /\ name2 \in StringsUpTo(MaxNameLen)
    /\ simResult = NoScore
    /\ client = IdleClient
    /\ camera = IdleCamera

Compare ==
    /\ simResult = NoScore
    /\ simResult' = calculateNameSimilarity(name1, name2)
    /\ UNCHANGED <<roster, attendance, pc, ocrResult, student, matchType,
                   response, allStudents, calls, regStatus, name1, name2,
                   client, camera>>

SimNext == Compare

SimSpec == SimInit /\ [][SimNext]_vars

----------------------------------------------------------------------------
(* Properties of the attendance handler *)

HasOcr(r) == ocrResult[r] # NoOcr

HasStudentId(rows, sid) == \E i \in 1..Len(rows) : rows[i].studentId = sid

\* a score of at least 0.7
AtLeast07(x) == 10 * x.num >= 7 * x.den

\* the name-match step of request r has run to its end
NameStepDone(r) ==
    /\ calls[r].findMany = 1
    /\ pc[r] = "create" \/ response[r] = "StudentNotFound"

\* C1: an OCR result with confidence < 50 ends the request with the
\* low-confidence failure, and the request issues no persistence call: no
\* studentId lookup, no roster listing, no attendance-record creation.
C1_LowConfidenceNoPersistence ==
    \A r \in Reqs :
        (HasOcr(r) /\ ocrResult[r].confidence < 50) =>
            /\ pc[r] = "done"
            /\ response[r] = "LowConfidence"
            /\ calls[r].findFirst = 0
            /\ calls[r].findMany = 0
            /\ calls[r].create = 0
            /\ student[r] = NoStudent
            /\ allStudents[r] = <<>>

\* a request rejected at confidence 49 although the roster holds the very
\* studentId and name the OCR read
C1_Witness ==
    \E r \in Reqs :
        /\ response[r] = "LowConfidence"
        /\ ocrResult[r].confidence = 49
        /\ ocrResult[r].student_name # <<>>
        /\ \E i \in 1..Len(roster) :
              /\ roster[i].studentId = ocrResult[r].student_id
              /\ roster[i].name = ocrResult[r].student_name

\* C2: with confidence >= 50 and a non-empty student_id the lookup is issued;
\* when it answers on a roster holding a Student with that studentId, the
\* request resolves exactly that Student as ID_Match, whatever the OCR name and
\* confidence are, and a request resolved as ID_Match never lists the roster.
C2_IdMatch ==
    [][\A r \in Reqs :
          /\ (/\ pc[r] = "findFirst"
              /\ pc'[r] # "findFirst"
              /\ response'[r] # "Failed"
              /\ HasStudentId(roster, ocrResult[r].student_id))
             => /\ student'[r] \in Range(roster)
                /\ student'[r].studentId = ocrResult[r].student_id
                /\ matchType'[r] = "ID_Match"
                /\ pc'[r] = "create"
          /\ (/\ HasOcr(r)'
              /\ ocrResult'[r].confidence >= 50
              /\ ocrResult'[r].student_id # "")
             => calls'[r].findFirst = 1
          /\ matchType'[r] = "ID_Match" =>
                /\ calls'[r].findMany = 0
                /\ pc'[r] # "findMany"
      ]_vars

\* an ID_Match recorded at confidence 50 for a Student that is not the first
\* of the roster and whose name scores under 0.7 against the OCR name
C2_Witness ==
    \E r \in Reqs :
        /\ response[r] = "Success"
        /\ matchType[r] = "ID_Match"
        /\ ocrResult[r].confidence = 50
        /\ ocrResult[r].student_name # <<>>
        /\ ~AtLeast07(calculateNameSimilarity(student[r].name,
                                              ocrResult[r].student_name))
        /\ Len(roster) > 1
        /\ student[r] # roster[1]

\* the words of a name as a set
WordSet(n) == Range(Split(normalizeVietnameseName(n)))

\* the Students of rows whose name has the same word set as n
SameWords(rows, n) == {s \in Range(rows) : WordSet(s.name) = WordSet(n)}

\* C3: with empty student_id, non-empty student_name and confidence >= 75, when
\* the roster listed holds exactly one Student whose name has the same word set
\* as student_name, the request resolves that Student as Name_Match.
C3_UniqueSameWordsWins ==
    \A r \in Reqs :
        (/\ NameStepDone(r)
         /\ ocrResult[r].student_id = ""
         /\ ocrResult[r].student_name # <<>>
         /\ ocrResult[r].confidence >= 75
         /\ Cardinality(SameWords(allStudents[r], ocrResult[r].student_name)) = 1)
        => /\ student[r] \in SameWords(allStudents[r], ocrResult[r].student_name)
           /\ matchType[r] = "Name_Match"

\* C8: with confidence in 50..74 the roster is never listed, and a request
\* whose identifier step resolved no Student ends with StudentNotFound.
C8_NameStepSkipped ==
    \A r \in Reqs :
        (HasOcr(r) /\ ocrResult[r].confidence \in 50..74) =>
            /\ calls[r].findMany = 0
            /\ pc[r] # "findMany"
            /\ allStudents[r] = <<>>
            /\ matchType[r] # "Name_Match"
            /\ ocrResult[r].student_id = "" =>
                  (pc[r] = "done" /\ response[r] = "StudentNotFound")
            /\ (pc[r] = "done" /\ student[r] = NoStudent /\ response[r] # "Failed")
                  => response[r] = "StudentNotFound"

\* StudentNotFound at confidence 74 for an OCR studentId the roster does not
\* hold, while a roster Student has exactly the OCR name
C8_Witness ==
    \E r \in Reqs :
        /\ response[r] = "StudentNotFound"
        /\ ocrResult[r].confidence = 74
        /\ ocrResult[r].student_id # ""
        /\ ~HasStudentId(roster, ocrResult[r].student_id)
        /\ \E i \in 1..Len(roster) : roster[i].name = ocrResult[r].student_name

\* C9: when the lookup of a non-empty student_id answers on a roster without
\* that studentId, and student_name is non-empty with confidence >= 75, the
\* roster is listed; the listing is the whole roster, and a Student resolved
\* from it is one of its Students, tagged Name_Match, whose studentId differs
\* from the OCR student_id when the roster listed holds no such studentId.
C9_FallsThroughToNameMatch ==
    [][\A r \in Reqs :
          /\ (/\ pc[r] = "findFirst"
              /\ pc'[r] # "findFirst"
              /\ response'[r] # "Failed"
              /\ ~HasStudentId(roster, ocrResult[r].student_id)
              /\ ocrResult[r].student_name # <<>>
              /\ ocrResult[r].confidence >= 75)
             => /\ pc'[r] = "findMany"
                /\ calls'[r].findMany = 1
          /\ (/\ pc[r] = "findMany"
              /\ pc'[r] # "findMany"
              /\ response'[r] # "Failed"
              /\ ocrResult[r].student_id # "")
             => /\ allStudents'[r] = roster
                /\ student'[r] # NoStudent =>
                      /\ student'[r] \in Range(roster)
                      /\ matchType'[r] = "Name_Match"
                      /\ pc'[r] = "create"
                      /\ ~HasStudentId(roster, ocrResult[r].student_id)
                            => student'[r].studentId # ocrResult[r].student_id
      ]_vars

\* a Name_Match recorded for an OCR studentId that the roster never held
C9_Witness ==
    \E r \in Reqs :
        /\ response[r] = "Success"
        /\ matchType[r] = "Name_Match"
        /\ ocrResult[r].student_id # ""
        /\ calls[r].findFirst = 1
        /\ ~HasStudentId(roster, ocrResult[r].student_id)
        /\ student[r].studentId # ocrResult[r].student_id

SimTo(r, s) == calculateNameSimilarity(s.name, ocrResult[r].student_name)

\* C10: once the name-match step has run, a Student it selected scores >= 0.7
\* against student_name and no Student of the roster listed scores strictly
\* higher; it selects nobody exactly when no Student listed scores >= 0.7.
C10_BestAboveThreshold ==
    \A r \in Reqs :
        NameStepDone(r) =>
            /\ student[r] # NoStudent =>
                  /\ student[r] \in Range(allStudents[r])
                  /\ AtLeast07(SimTo(r, student[r]))
                  /\ \A s \in Range(allStudents[r]) :
                        ~ScoreGt(SimTo(r, s), SimTo(r, student[r]))
            /\ student[r] = NoStudent <=>
                  \A s \in Range(allStudents[r]) : ~AtLeast07(SimTo(r, s))

\* the step chose a Student over an earlier one that also scores >= 0.7, and
\* passed over one that scores under 0.7
C10_Witness ==
    \E r \in Reqs :
        /\ NameStepDone(r)
        /\ student[r] # NoStudent
        /\ \E i, j \in 1..Len(allStudents[r]) :
              /\ i < j
              /\ student[r] = allStudents[r][j]
              /\ AtLeast07(SimTo(r, allStudents[r][i]))
              /\ ScoreGt(SimTo(r, student[r]), SimTo(r, allStudents[r][i]))

\* C11: the Student the name-match step selects is the first of the roster
\* listed that reaches the selected score: every Student listed before it
\* scores strictly lower, so a later Student with an equal score never
\* replaces an earlier one.
C11_FirstOfTiesWins ==
    \A r \in Reqs :
        (NameStepDone(r) /\ student[r] # NoStudent) =>
            \E j \in 1..Len(allStudents[r]) :
                /\ allStudents[r][j] = student[r]
                /\ \A i \in 1..(j - 1) :
                      ScoreGt(SimTo(r, student[r]), SimTo(r, allStudents[r][i]))

\* the first of the roster was selected while the second scores the same
C11_Witness ==
    \E r \in Reqs :
        /\ NameStepDone(r)
        /\ Len(allStudents[r]) = 2
        /\ student[r] = allStudents[r][1]
        /\ allStudents[r][1].name # allStudents[r][2].name
        /\ ScoreEq(SimTo(r, allStudents[r][1]), SimTo(r, allStudents[r][2]))

TwoTierMatch(rows, res) ==
    LET byId == IF res.student_id # "" THEN findFirst(rows, res.student_id)
                ELSE NoStudent
        byName == IF NameMatchAllowed(res) THEN BestMatch(rows, res.student_name)
                  ELSE NoStudent
    IN  IF byId # NoStudent THEN <<byId, "ID_Match">>
        ELSE IF byName # NoStudent THEN <<byName, "Name_Match">>
        ELSE <<NoStudent, "">>

\* request r has made its match decision
Decided(r) ==
    pc[r] = "create" \/ response[r] \in {"Success", "StudentNotFound"}

\* C15: the (Student, match type) a request decides is what the two-tier
\* matcher gives on the roster as it was at one instant (the roster only grows,
\* so each such roster is a prefix of the present one), and a Name_Match is
\* never decided on a roster listing that holds the OCR student_id.
C15_SingleSnapshot ==
    \A r \in Reqs :
        Decided(r) =>
            /\ \E k \in 0..Len(roster) :
                  <<student[r], matchType[r]>>
                      = TwoTierMatch(SubSeq(roster, 1, k), ocrResult[r])
            /\ matchType[r] = "Name_Match" =>
                  ~HasStudentId(allStudents[r], ocrResult[r].student_id)

UniqueStudentIds(rows) ==
    \A i, j \in 1..Len(rows) : rows[i].studentId = rows[j].studentId => i = j

\* C17: no two Students of the roster share a studentId; a registration
\* missing studentId, name or class is answered 400 and one whose studentId
\* is already registered is answered 409, both leaving the roster as it was.
C17_UniqueStudentId ==
    [][/\ UniqueStudentIds(roster')
       /\ \A json \in RegRequests :
             RegisterOne(json) =>
                IF json.studentId = "" \/ json.name = <<>> \/ json.class = ""
                THEN regStatus' = 400 /\ roster' = roster
                ELSE HasStudentId(roster, json.studentId) =>
                        (regStatus' = 409 /\ roster' = roster)
      ]_vars

\* a registration answered 409 with two Students registered
C17_Witness ==
    /\ regStatus = 409
    /\ Len(roster) = 2
    /\ roster[1].name = roster[2].name

\* the attendance requests of the specification at hand
Requests == DOMAIN pc

RecordsOf(sid, st) ==
    {i \in 1..Len(attendance) :
        attendance[i].studentId = sid /\ attendance[i].status = st}

SuccessesOf(sid, st) ==
    {r \in Requests :
        response[r] = "Success" /\ student[r].id = sid /\ matchType[r] = st}

\* C12: the records of the store are, one for one, the requests that returned
\* success: a request creates at most one record, none unless it resolved a
\* Student, and one whenever it resolved a Student and its create call
\* answered; the record carries the resolved Student's id and the request's
\* match type, which is ID_Match or Name_Match.
C12_RecordsAreResolvedMatches ==
    /\ \A i \in 1..Len(attendance) :
          /\ attendance[i].status \in {"ID_Match", "Name_Match"}
          /\ \E s \in Range(roster) : s.id = attendance[i].studentId
    /\ \A sid \in 0..Len(roster), st \in {"", "ID_Match", "Name_Match"} :
          Cardinality(RecordsOf(sid, st)) = Cardinality(SuccessesOf(sid, st))
    /\ \A r \in Requests :
          /\ calls[r].create <= 1
          /\ student[r] = NoStudent <=> matchType[r] = ""
          /\ student[r] = NoStudent => (calls[r].create = 0 /\ response[r] # "Success")
          /\ (pc[r] = "done" /\ student[r] # NoStudent /\ response[r] # "Failed")
                => response[r] = "Success"

\* two requests recorded, one by identifier and one by name
C12_Witness ==
    /\ Len(attendance) = 2
    /\ \E r, q \in Requests :
          /\ response[r] = "Success" /\ matchType[r] = "ID_Match"
          /\ response[q] = "Success" /\ matchType[q] = "Name_Match"

FailureResponses ==
    {"NoFile", "OCRServiceFailure", "LowConfidence", "StudentNotFound", "Failed"}

\* C13: the step by which a request returns a failure response leaves the
\* attendance records and the roster as they were, and the store holds as many
\* records as requests have returned success.
C13_FailuresLeaveStoreUnchanged ==
    [][/\ \A r \in Requests :
             (response[r] = "" /\ response'[r] \in FailureResponses)
                => (attendance' = attendance /\ roster' = roster)
       /\ Len(attendance') = Cardinality({r \in Requests : response'[r] = "Success"})
      ]_vars

\* one request failed on its create call after resolving a Student, the other
\* ended StudentNotFound, and no record exists
C13_Witness ==
    \E r, q \in Requests :
        /\ response[r] = "Failed" /\ student[r] # NoStudent
        /\ response[q] = "StudentNotFound"
        /\ Len(roster) > 0
        /\ attendance = <<>>

\* C16: a create call is never refused because of the records already stored,
\* and each Student has as many records as requests that resolved it have
\* returned success: requests resolving the same Student each add their own.
C16_NoDeduplication ==
    /\ \A r \in Requests : pc[r] = "create" => ENABLED CreateReturn(r)
    /\ \A s \in Range(roster) :
          Cardinality({i \in 1..Len(attendance) : attendance[i].studentId = s.id})
             = Cardinality({r \in Requests :
                               response[r] = "Success" /\ student[r] = s})

\* two requests that resolved one Student both succeeded: two records of it
C16_Witness ==
    \E r, q \in Requests :
        /\ r # q
        /\ response[r] = "Success"
        /\ response[q] = "Success"
        /\ student[r] = student[q]
        /\ Len(attendance) = 2
        /\ attendance[1].studentId = attendance[2].studentId

----------------------------------------------------------------------------
(* Properties of the client *)

FwrEnded == client.pc \in {"returned", "thrown"}

FwrAccounts ==
    LET c == client
        failed == Len(c.errors)
    IN  /\ c.attempts <= c.retries \/ c.attempts = 0
        /\ \A k \in 1..failed : c.errors[k].attempt = k
        /\ \A k \in 1..Len(c.waits) : c.waits[k] = 1000 * k
        /\ c.pc = "fetching" =>
              (failed = c.attempts - 1 /\ Len(c.waits) = c.attempts - 1)
        /\ c.pc = "waiting" =>
              (failed = c.attempts /\ Len(c.waits) = c.attempts
               /\ c.attempts < c.retries)
        /\ c.pc = "returned" =>
              /\ c.returned.ok
              /\ IsOk(c.returned.status)
              /\ failed = c.attempts - 1
              /\ Len(c.waits) = c.attempts - 1
        /\ (c.pc = "thrown" /\ c.retries >= 1) =>
              /\ c.attempts = c.retries
              /\ failed = c.retries
              /\ c.thrown = c.errors[c.retries]
              /\ Len(c.waits) = c.retries - 1

\* C19: fetchWithRetry ends, after at most `retries` fetches made one after
\* another; it returns the first response that is ok and only such a response;
\* when every fetch failed it throws the error of the last one; the k-th
\* failure is followed by a delay of 1000*k ms, except the last.
C19_FetchWithRetry == []FwrAccounts /\ <>FwrEnded

\* three fetches failed in three ways, two delays, the last error thrown
C19_Witness ==
    /\ client.pc = "thrown"
    /\ client.attempts = DefaultRetries
    /\ client.waits = <<1000, 2000>>
    /\ client.errors[1].kind = "network"
    /\ client.errors[2].status = 500
    /\ client.thrown = [attempt |-> 3, kind |-> "http", status |-> 404]

\* C18: when the client's own OCR result has an empty student_id or a
\* confidence under 50, processImage ends without sending any attendance
\* request, and no attendance record comes to exist.
C18_ClientSubmitsOnlyWithId ==
    (/\ client.ocr # NoClientOcr
     /\ client.ocr.student_id = "" \/ client.ocr.confidence < 50)
    => /\ client.pc = "done"
       /\ client.attempts = 0
       /\ \A r \in Requests : pc[r] = "unsent" /\ calls[r] = NoCalls
       /\ attendance = <<>>

\* a confident OCR result without student_id: nothing was sent
C18_Witness ==
    /\ client.pc = "done"
    /\ client.ocr.student_id = ""
    /\ client.ocr.confidence = 100

\* C20: one processImage call leaves at most one attendance record, over all
\* the attempts fetchWithRetry makes on /api/attendance.
C20_OneRecordPerImage == Len(attendance) <= 1

\* at most one invocation is past the flag test, hence inside processImage
OneAtATime ==
    /\ Cardinality(Running(camera)) <= 1
    /\ Cardinality(Inside(camera)) <= 1

\* processingRef.current is set exactly while an invocation is running
FlagTracks == camera.processingRef <=> Running(camera) # {}

\* an invocation that starts is dropped exactly when the flag is set, and goes
\* on to read its image exactly when the flag is clear (auto detection being
\* on in the closure of its processFrame instance)
Admission ==
    Len(camera'.frames) = Len(camera.frames) + 1 =>
        LET f == camera'.frames[Len(camera'.frames)]
        IN  /\ f.pc = "dropped" <=> camera.closures[f.gen] /\ camera.processingRef
            /\ f.pc = "blob" <=> camera.closures[f.gen] /\ ~camera.processingRef

\* C21: camera frames are processed one at a time: at most one processFrame
\* invocation is inside processImage, a frame that arrives while processingRef
\* is set is dropped (whichever processFrame instance it came through), and
\* processingRef is reset when the invocation finishes, by return or by throw,
\* so that a later frame is admitted again.
C21_OneFrameAtATime ==
    /\ []OneAtATime
    /\ []FlagTracks
    /\ [][Admission]_vars
    /\ (camera.processingRef ~> ~camera.processingRef)

\* a first invocation ended in an error, a later one is inside processImage,
\* and a frame that came through a newer processFrame instance was dropped
C21_Witness ==
    \E i, j, k \in DOMAIN camera.frames :
        /\ i < j /\ j < k
        /\ camera.frames[i].pc \in {"caught", "failed"}
        /\ camera.frames[j].pc = "processImage"
        /\ camera.frames[k].pc = "dropped"
        /\ camera.frames[k].gen > camera.frames[j].gen

----------------------------------------------------------------------------
(* Properties of calculateNameSimilarity *)

Returned == simResult # NoScore

\* |A \cap B| / |A \cup B|
JaccardIndex(A, B) == Score(Cardinality(A \cap B), Cardinality(A \cup B))

\* C4: the value returned is the Jaccard index of the two names' word sets,
\* and so lies between 0 and 1.
C4_IsJaccardIndex ==
    Returned =>
        /\ ScoreEq(simResult, JaccardIndex(WordSet(name1), WordSet(name2)))
        /\ 0 <= simResult.num
        /\ simResult.num <= simResult.den

\* C5: the value returned for (a, b) is the value of (b, a).
C5_Symmetric ==
    Returned => ScoreEq(simResult, calculateNameSimilarity(name2, name1))

\* C6: two names that normalise to the empty string score 0.
C6_EmptyNamesScoreZero ==
    (/\ Returned
     /\ normalizeVietnameseName(name1) = <<>>
     /\ normalizeVietnameseName(name2) = <<>>)
    => simResult.num = 0

Words(n) == Split(normalizeVietnameseName(n))

RECURSIVE Join(_)
Join(ws) ==
    IF Len(ws) = 0 THEN <<>>
    ELSE IF Len(ws) = 1 THEN ws[1]
         ELSE ws[1] \o <<" ">> \o Join(Tail(ws))

Orders(n) ==
    {p \in [1..n -> 1..n] : \A i, j \in 1..n : p[i] = p[j] => i = j}

\* the names made of the words of n in every order
Reorderings(n) ==
    LET ws == Words(n)
    IN  {Join([i \in 1..Len(ws) |-> ws[p[i]]]) : p \in Orders(Len(ws))}

\* C7: writing the words of either name in another order leaves the value
\* returned unchanged, and a name of one or more distinct words scores 1
\* against every reordering of itself.
C7_WordOrderInsensitive ==
    Returned =>
        /\ \A m \in Reorderings(name1) :
              calculateNameSimilarity(m, name2) = simResult
        /\ \A m \in Reorderings(name2) :
              calculateNameSimilarity(name1, m) = simResult
        /\ (/\ normalizeVietnameseName(name1) # <<>>
            /\ Cardinality(WordSet(name1)) = Len(Words(name1))
            /\ normalizeVietnameseName(name2) \in Reorderings(name1))
           => (simResult.num = simResult.den /\ simResult.den > 0)

\* two different two-word names, one the other's words swapped, scored 1
C7_Witness ==
    /\ Returned
    /\ Len(Words(name1)) = 2
    /\ Words(name1)[1] # Words(name1)[2]
    /\ Words(name2) = <<Words(name1)[2], Words(name1)[1]>>
    /\ name1 # name2
    /\ simResult = Score(2, 2)

====
